---- MODULE Spec2Model ----
(***************************************************************************)
(* A model of python/arti_rpc_tests/src/arti_rpc_tests/context.py:         *)
(* TestContext (launch_arti, arti_process_is_running, _wait_for_rpc) and   *)
(* ArtiProcess (is_running, close, __del__).                               *)
(*                                                                         *)
(* The program is single threaded.  pc is the position of its one thread:  *)
(*   "idle"   no method of the fixture is running, the test may call one   *)
(*   "poll"   _wait_for_rpc, at the head of the for loop (line 149)        *)
(*   "sleep"  _wait_for_rpc, inside time.sleep(interval) (line 155)        *)
(*   "grace"  close, inside the first self.process.wait(10) (line 192)     *)
(*   "final"  close, inside the last self.process.wait(10) (line 199)      *)
(*   "gone"   the TestContext has been destroyed                           *)
(* The child processes run on their own and are the only concurrency.      *)
(*                                                                         *)
(* Time is counted in ticks of 1/20 second, so that timeouts that are not  *)
(* a multiple of the poll interval exist.                                  *)
(***************************************************************************)
EXTENDS Integers, Sequences, FiniteSets

\* ------------------------------------------------------------- bounds
\* How many times launch_arti may be called in one run.
MaxLaunch == 2
\* _wait_for_rpc is called directly with timeout in 1..MaxTimeout ticks.
MaxTimeout == 7

\* ---------------------------------------------------------- constants
\* interval = 0.1 (line 147), in ticks.
interval == 2
\* timeout: float = 3.0 (line 141), in ticks.
DefaultTimeout == 60

None == 0
Procs == 1..MaxLaunch
Platforms == {"posix", "win32"}
Reactions == {"exit", "ignore"}

VARIABLES
  platform,      \* sys.platform, as far as close() distinguishes it
  arti_process,  \* TestContext.arti_process: None or the id of an ArtiProcess
  process,       \* process[i]: ArtiProcess.process of ArtiProcess i
  child,         \* child[i]: the OS process that Popen i started
  pc,            \* position of the thread
  cl,            \* the current (or last) call of close
  closed,        \* how the last finished close of the ArtiProcess that
                 \* arti_process holds ended: "never", "returned", "raised"
  ret,           \* what the last call of arti_process_is_running returned
  timeout,       \* _wait_for_rpc: its parameter
  results,       \* _wait_for_rpc: how each call of open_rpc_connection ended
  waited,        \* _wait_for_rpc: its local variable
  rpc_status,    \* _wait_for_rpc: "none", "running", "returned", or the
                 \* exception that left it: "FatalException", "OtherException"
  rpc_error      \* _wait_for_rpc: the message of the exception it raised

rpcvars == <<timeout, results, waited, rpc_status, rpc_error>>
vars == <<platform, arti_process, process, child, pc, cl, closed,
          ret, timeout, results, waited, rpc_status, rpc_error>>

\* ------------------------------------------------------ pure helpers

\* math.ceil(timeout / interval) for positive operands.  For a timeout of a
\* whole number of ticks the ceiling of the float quotient is the exact one.
CeilDivOneMore(t, i) == t \div i + 1
CeilDiv(t, i) == (t + i - 1) \div i

\* A piece of a message: literal text, or a value formatted into the text.
Text(s) == [kind |-> "text", text |-> s, num |-> 0]
Value(n) == [kind |-> "value", text |-> "", num |-> n]

\* "Arti not reachable after {timeout} seconds." is a plain string literal,
\* not an f-string: the braces and the name between them stay as text.
NotReachableMessage(t) ==
  <<Text("Arti not reachable after "), Text("{timeout}"), Text(" seconds.")>>

\* The outcomes of open_rpc_connection that the try statement of lines
\* 150-155 tells apart: no exception, an arti_rpc.ArtiRpcError (the typed
\* failure of an attempt), and an exception of any other class, which the
\* except clause of line 154 does not name.
Outcomes == {"ok", "ArtiRpcError", "OtherException"}

\* Calls of open_rpc_connection made by the current call of _wait_for_rpc.
attempts == Len(results)

\* Popen.poll() is None: the process has not exited.
PollIsNone(ch, i) == ch[i].state # "exited"

\* As is_running, with "or" for "and" and the test of the handle inverted.
is_running_handle_only(i) == process[i] = "Popen"

is_running_or(i) == process[i] # "Popen" \/ PollIsNone(child, i)

\* ArtiProcess.is_running
is_running(i) == process[i] = "Popen" /\ PollIsNone(child, i)

\* TestContext.arti_process_is_running
arti_process_is_running ==
  IF arti_process = None THEN FALSE ELSE is_running(arti_process)

\* A process before Popen starts it and after it has exited; Running(...) is
\* a live one, with how it reacts to SIGINT and to terminate() and whether it
\* may exit by itself.
Unborn == [state |-> "unborn", onInt |-> "exit", onTerm |-> "exit",
           selfExit |-> FALSE]
Exited == [state |-> "exited", onInt |-> "exit", onTerm |-> "exit",
           selfExit |-> FALSE]
Running(onInt, onTerm, selfExit) ==
  [state |-> "running", onInt |-> onInt, onTerm |-> onTerm,
   selfExit |-> selfExit]

\* How a process reacts to a signal: its handler either makes it exit (it
\* then exits within any wait that follows) or ignores the signal.
React(c, sig) ==
  LET how == IF sig = "SIGINT" THEN c.onInt ELSE c.onTerm
  IN  IF c.state = "running" /\ how = "exit"
        THEN [c EXCEPT !.state = "exiting"]
        ELSE c

\* Popen.send_signal, Popen.terminate: nothing is sent to a process that has
\* exited.  ch is the table of processes the signal is sent in.
send_signal(ch, i, sig) ==
  child' = [ch EXCEPT ![i] = IF PollIsNone(ch, i) THEN React(@, sig) ELSE @]

\* A call of close: whether it is running, has returned or has raised; the
\* ArtiProcess it is called on, its argument and who called it; the signals
\* it asked Popen to send and those that reached a live process; how its
\* two waits ended; and how the previous close of the same ArtiProcess ended.
NoCall == [status |-> "none", target |-> None, gently |-> FALSE,
           caller |-> "user", sent |-> <<>>, delivered |-> <<>>,
           grace |-> "none", final |-> "none", prev |-> "never"]

\* The signals of sigs that reach process i, by whether it is still alive.
Reaching(ch, i, sigs) == IF PollIsNone(ch, i) THEN sigs ELSE <<>>

\* ---------------------------------------------------------------- Init
Init ==
  /\ platform \in Platforms
  /\ arti_process = None
  /\ process = [i \in Procs |-> "absent"]
  /\ child = [i \in Procs |-> Unborn]
  /\ pc = "idle"
  /\ cl = NoCall
  /\ closed = "never"
  /\ ret = "none"
  /\ timeout = 0
  /\ results = <<>>
  /\ waited = 0
  /\ rpc_status = "none"
  /\ rpc_error = <<>>

\* The frame of a call is gone once the test calls the next method: what is
\* left of _wait_for_rpc, of close and of arti_process_is_running is what
\* the last call left.
NoRpc ==
  /\ timeout' = 0
  /\ results' = <<>>
  /\ waited' = 0
  /\ rpc_status' = "none"
  /\ rpc_error' = <<>>

\* ------------------------------------------------------- _wait_for_rpc

\* raise FatalException(...) (line 158); it propagates to the test.
RaiseNotReachable ==
  /\ rpc_status' = "FatalException"
  /\ rpc_error' = NotReachableMessage(timeout')
  /\ pc' = "idle"

\* Entry of _wait_for_rpc(timeout): lines 147-149.
WaitBegin(t) ==
  /\ timeout' = t
  /\ results' = <<>>
  /\ waited' = 0
  /\ IF CeilDiv(t, interval) > 0
       THEN rpc_status' = "running" /\ rpc_error' = <<>> /\ pc' = "poll"
       ELSE RaiseNotReachable

\* A direct call of _wait_for_rpc with a timeout of the caller's choice.
wait_for_rpc ==
  /\ pc = "idle"
  /\ \E t \in 1..MaxTimeout : WaitBegin(t)
  /\ cl' = NoCall
  /\ ret' = "none"
  /\ UNCHANGED <<platform, arti_process, process, child, closed>>

\* As wait_for_rpc_attempt, with launch_arti closing the process it started
\* when an exception leaves its wait (an except around line 122 that calls
\* close(False) on a process that dies at once).
wait_for_rpc_attempt_cleans_up ==
  /\ pc = "poll"
  /\ \E r \in Outcomes :
       /\ results' = Append(results, r)
       /\ IF r = "ok"
            THEN /\ rpc_status' = "returned" /\ pc' = "idle"
                 /\ UNCHANGED <<process, child>>
            ELSE IF r = "ArtiRpcError"
            THEN /\ rpc_status' = rpc_status /\ pc' = "sleep"
                 /\ UNCHANGED <<process, child>>
            ELSE /\ rpc_status' = r /\ pc' = "idle"
                 /\ IF timeout = DefaultTimeout /\ arti_process # None
                      THEN /\ process' = [process EXCEPT ![arti_process] = "None"]
                           /\ child' = [child EXCEPT ![arti_process] = Exited]
                      ELSE UNCHANGED <<process, child>>
  /\ UNCHANGED <<platform, arti_process, cl,
                 closed, ret, timeout, waited, rpc_error>>

\* As wait_for_rpc_attempt, with the return of line 153 missing: after a
\* connection the loop goes on.
wait_for_rpc_attempt_no_return ==
  /\ pc = "poll"
  /\ UNCHANGED <<platform, arti_process, process, child, cl, closed, ret,
                 timeout, waited>>
  /\ \E r \in Outcomes :
       /\ results' = Append(results, r)
       /\ IF r = "ok"
            THEN IF Len(results') < CeilDiv(timeout, interval)
                   THEN pc' = "poll" /\ UNCHANGED <<rpc_status, rpc_error>>
                   ELSE RaiseNotReachable
            ELSE IF r = "ArtiRpcError"
            THEN pc' = "sleep" /\ UNCHANGED <<rpc_status, rpc_error>>
            ELSE rpc_status' = r /\ rpc_error' = rpc_error /\ pc' = "idle"

\* One pass of the loop body, lines 150-155: open_rpc_connection succeeds
\* and _wait_for_rpc returns, or it raises ArtiRpcError and the thread
\* enters time.sleep, or it raises another exception, which leaves
\* _wait_for_rpc (and launch_arti, which catches nothing).
wait_for_rpc_attempt ==
  /\ pc = "poll"
  /\ \E r \in Outcomes :
       /\ results' = Append(results, r)
       /\ IF r = "ok"
            THEN rpc_status' = "returned" /\ pc' = "idle"
            ELSE IF r = "ArtiRpcError"
            THEN rpc_status' = rpc_status /\ pc' = "sleep"
            ELSE rpc_status' = r /\ pc' = "idle"
  /\ UNCHANGED <<platform, arti_process, process, child, cl,
                 closed, ret, timeout, waited, rpc_error>>

\* As wait_for_rpc_sleep, with a budget of one attempt more.
wait_for_rpc_sleep_one_more ==
  /\ pc = "sleep"
  /\ waited' = waited + interval
  /\ timeout' = timeout
  /\ IF attempts <= CeilDiv(timeout, interval)
       THEN pc' = "poll" /\ UNCHANGED <<rpc_status, rpc_error>>
       ELSE RaiseNotReachable
  /\ UNCHANGED <<platform, arti_process, process, child, cl,
                 closed, ret, results>>

\* As wait_for_rpc_sleep, with a loop that gives up once the process that
\* arti_process holds is no longer running.
wait_for_rpc_sleep_while_running ==
  /\ pc = "sleep"
  /\ waited' = waited + interval
  /\ timeout' = timeout
  /\ IF /\ attempts < CeilDiv(timeout, interval)
        /\ arti_process_is_running
       THEN pc' = "poll" /\ UNCHANGED <<rpc_status, rpc_error>>
       ELSE RaiseNotReachable
  /\ UNCHANGED <<platform, arti_process, process, child, cl,
                 closed, ret, results>>

\* As wait_for_rpc_sleep, with a budget one attempt short.
wait_for_rpc_sleep_one_short ==
  /\ pc = "sleep"
  /\ waited' = waited + interval
  /\ timeout' = timeout
  /\ IF attempts + 1 < CeilDiv(timeout, interval)
       THEN pc' = "poll" /\ UNCHANGED <<rpc_status, rpc_error>>
       ELSE RaiseNotReachable
  /\ UNCHANGED <<platform, arti_process, process, child, cl,
                 closed, ret, results>>

\* time.sleep returns, lines 155-156, and the loop goes on (line 149) or is
\* exhausted (line 158).
wait_for_rpc_sleep ==
  /\ pc = "sleep"
  /\ waited' = waited + interval
  /\ timeout' = timeout
  /\ IF attempts < CeilDiv(timeout, interval)
       THEN pc' = "poll" /\ UNCHANGED <<rpc_status, rpc_error>>
       ELSE RaiseNotReachable
  /\ UNCHANGED <<platform, arti_process, process, child, cl,
                 closed, ret, results>>

\* ------------------------------------------------------- ArtiProcess.close

\* Where the thread goes when a call of close ends, by who called it: the
\* test, __del__ run by the assignment in launch_arti (line 121, followed by
\* line 122), or __del__ run when the TestContext goes away.  An exception
\* that leaves __del__ is ignored by the interpreter.
Resume(caller) ==
  CASE caller = "user" -> pc' = "idle" /\ NoRpc
    [] caller = "del_launch" -> WaitBegin(DefaultTimeout)
    [] caller = "del_exit" -> pc' = "gone" /\ NoRpc

\* closed after a step of a call of close: the ArtiProcess that __del__
\* closes for launch_arti is no longer the one arti_process holds, and the
\* one it holds now has never been closed.
Closed(caller, how) == IF caller = "del_launch" THEN "never" ELSE how

\* As CloseBody, with the test of sys.platform on line 189 missing.
CloseBody_any_platform(ch, i, gently, caller) ==
  LET call == [status |-> "active", target |-> i, gently |-> gently,
               caller |-> caller, sent |-> <<>>, delivered |-> <<>>,
               grace |-> "none", final |-> "none", prev |-> closed]
  IN  IF process[i] # "Popen"
        THEN /\ cl' = [call EXCEPT !.status = "returned"]
             /\ closed' = Closed(caller, "returned")
             /\ child' = ch
             /\ Resume(caller)
        ELSE IF gently
        THEN /\ send_signal(ch, i, "SIGINT")
             /\ cl' = [call EXCEPT !.sent = <<"SIGINT">>,
                                    !.delivered = Reaching(ch, i, <<"SIGINT">>),
                                    !.grace = "waiting"]
             /\ pc' = "grace"
             /\ closed' = Closed(caller, closed)
             /\ NoRpc
        ELSE /\ send_signal(ch, i, "SIGTERM")
             /\ cl' = [call EXCEPT !.sent = <<"SIGTERM">>,
                                    !.delivered = Reaching(ch, i, <<"SIGTERM">>),
                                    !.final = "waiting"]
             /\ pc' = "final"
             /\ closed' = Closed(caller, closed)
             /\ NoRpc

\* As CloseBody, with the test of the handle on line 188 missing.
CloseBody_no_handle_test(ch, i, gently, caller) ==
  LET call == [status |-> "active", target |-> i, gently |-> gently,
               caller |-> caller, sent |-> <<>>, delivered |-> <<>>,
               grace |-> "none", final |-> "none", prev |-> closed]
  IN  IF gently /\ platform # "win32"
        THEN /\ send_signal(ch, i, "SIGINT")
             /\ cl' = [call EXCEPT !.sent = <<"SIGINT">>,
                                    !.delivered = Reaching(ch, i, <<"SIGINT">>),
                                    !.grace = "waiting"]
             /\ pc' = "grace"
             /\ closed' = Closed(caller, closed)
             /\ NoRpc
        ELSE /\ send_signal(ch, i, "SIGTERM")
             /\ cl' = [call EXCEPT !.sent = <<"SIGTERM">>,
                                    !.delivered = Reaching(ch, i, <<"SIGTERM">>),
                                    !.final = "waiting"]
             /\ pc' = "final"
             /\ closed' = Closed(caller, closed)
             /\ NoRpc

\* close(gently) on ArtiProcess i, lines 188-197, up to its first wait; ch is
\* the table of processes at the call.
CloseBody(ch, i, gently, caller) ==
  LET call == [status |-> "active", target |-> i, gently |-> gently,
               caller |-> caller, sent |-> <<>>, delivered |-> <<>>,
               grace |-> "none", final |-> "none", prev |-> closed]
  IN  IF process[i] # "Popen"
        THEN /\ cl' = [call EXCEPT !.status = "returned"]
             /\ closed' = Closed(caller, "returned")
             /\ child' = ch
             /\ Resume(caller)
        ELSE IF gently /\ platform # "win32"
        THEN /\ send_signal(ch, i, "SIGINT")
             /\ cl' = [call EXCEPT !.sent = <<"SIGINT">>,
                                    !.delivered = Reaching(ch, i, <<"SIGINT">>),
                                    !.grace = "waiting"]
             /\ pc' = "grace"
             /\ closed' = Closed(caller, closed)
             /\ NoRpc
        ELSE /\ send_signal(ch, i, "SIGTERM")
             /\ cl' = [call EXCEPT !.sent = <<"SIGTERM">>,
                                    !.delivered = Reaching(ch, i, <<"SIGTERM">>),
                                    !.final = "waiting"]
             /\ pc' = "final"
             /\ closed' = Closed(caller, closed)
             /\ NoRpc

\* As CloseReturn, with line 200 missing: the handle is kept.
CloseReturn_keeps_handle ==
  /\ process' = process
  /\ cl' = [cl EXCEPT !.status = "returned", !.final = "exited",
                      !.grace = IF @ = "waiting" THEN "exited" ELSE @]
  /\ closed' = Closed(cl.caller, "returned")
  /\ Resume(cl.caller)

\* Lines 199-200 when the wait returns: the handle is cleared, close returns.
CloseReturn ==
  /\ process' = [process EXCEPT ![cl.target] = "None"]
  /\ cl' = [cl EXCEPT !.status = "returned", !.final = "exited",
                      !.grace = IF @ = "waiting" THEN "exited" ELSE @]
  /\ closed' = Closed(cl.caller, "returned")
  /\ Resume(cl.caller)

\* The test calls self.arti_process.close(gently).
close ==
  /\ pc = "idle"
  /\ arti_process # None
  /\ \E gently \in BOOLEAN : CloseBody(child, arti_process, gently, "user")
  /\ ret' = "none"
  /\ UNCHANGED <<platform, arti_process, process>>

\* As close_grace_exit, with terminate() called whether or not the wait of
\* line 192 timed out (a finally for the except of line 193).
close_grace_exit_terminates ==
  /\ pc = "grace"
  /\ ~PollIsNone(child, cl.target)
  /\ process' = [process EXCEPT ![cl.target] = "None"]
  /\ cl' = [cl EXCEPT !.status = "returned", !.final = "exited",
                      !.grace = "exited", !.sent = Append(@, "SIGTERM")]
  /\ closed' = Closed(cl.caller, "returned")
  /\ Resume(cl.caller)
  /\ UNCHANGED <<platform, arti_process, child, ret>>

\* Line 192 returns: the process exited within the grace period.  The wait
\* of line 199 then returns at once.
close_grace_exit ==
  /\ pc = "grace"
  /\ ~PollIsNone(child, cl.target)
  /\ CloseReturn
  /\ UNCHANGED <<platform, arti_process, child, ret>>

\* As close_grace_timeout, with the terminate() of line 195 missing.
close_grace_timeout_no_terminate ==
  /\ pc = "grace"
  /\ child[cl.target].state = "running"
  /\ cl' = [cl EXCEPT !.grace = "timeout", !.final = "waiting"]
  /\ pc' = "final"
  /\ UNCHANGED <<platform, arti_process, process, child, closed, ret, rpcvars>>

\* Line 192 raises TimeoutExpired: lines 193-195.
close_grace_timeout ==
  /\ pc = "grace"
  /\ child[cl.target].state = "running"
  /\ send_signal(child, cl.target, "SIGTERM")
  /\ cl' = [cl EXCEPT !.sent = Append(@, "SIGTERM"),
                      !.delivered = @ \o Reaching(child, cl.target, <<"SIGTERM">>),
                      !.grace = "timeout", !.final = "waiting"]
  /\ pc' = "final"
  /\ UNCHANGED <<platform, arti_process, process, closed, ret, rpcvars>>

\* As close_final_exit, with line 199 not waiting for the process.
close_final_exit_no_wait ==
  /\ pc = "final"
  /\ CloseReturn
  /\ UNCHANGED <<platform, arti_process, child, ret>>

\* Line 199 returns: line 200.
close_final_exit ==
  /\ pc = "final"
  /\ ~PollIsNone(child, cl.target)
  /\ CloseReturn
  /\ UNCHANGED <<platform, arti_process, child, ret>>

\* As close_final_timeout, with the TimeoutExpired of line 199 caught and
\* dropped: close goes on to line 200 and returns.
close_final_timeout_swallowed ==
  /\ pc = "final"
  /\ child[cl.target].state = "running"
  /\ process' = [process EXCEPT ![cl.target] = "None"]
  /\ cl' = [cl EXCEPT !.status = "returned", !.final = "timeout"]
  /\ closed' = Closed(cl.caller, "returned")
  /\ Resume(cl.caller)
  /\ UNCHANGED <<platform, arti_process, child, ret>>

\* As close_final_timeout, with line 200 in a finally: the handle is cleared
\* while TimeoutExpired leaves close.
close_final_timeout_clears ==
  /\ pc = "final"
  /\ child[cl.target].state = "running"
  /\ process' = [process EXCEPT ![cl.target] = "None"]
  /\ cl' = [cl EXCEPT !.status = "raised", !.final = "timeout"]
  /\ closed' = Closed(cl.caller, "raised")
  /\ Resume(cl.caller)
  /\ UNCHANGED <<platform, arti_process, child, ret>>

\* Line 199 raises TimeoutExpired, which nothing in close catches.
close_final_timeout ==
  /\ pc = "final"
  /\ child[cl.target].state = "running"
  /\ cl' = [cl EXCEPT !.status = "raised", !.final = "timeout"]
  /\ closed' = Closed(cl.caller, "raised")
  /\ Resume(cl.caller)
  /\ UNCHANGED <<platform, arti_process, process, child, ret>>

\* ------------------------------------------------------------ TestContext

\* As launch_arti, with no __del__ in ArtiProcess: the ArtiProcess stored
\* before is dropped without being closed.
launch_arti_no_del ==
  /\ pc = "idle"
  /\ \E n \in Procs, onInt \in Reactions, onTerm \in Reactions,
        selfExit \in BOOLEAN :
       /\ process[n] = "absent"
       /\ \A m \in Procs : m < n => process[m] # "absent"
       /\ process' = [process EXCEPT ![n] = "Popen"]
       /\ arti_process' = n
       /\ child' = [child EXCEPT ![n] = Running(onInt, onTerm, selfExit)]
       /\ WaitBegin(DefaultTimeout)
       /\ cl' = NoCall
       /\ closed' = "never"
  /\ ret' = "none"
  /\ platform' = platform

\* launch_arti, lines 117-122: Popen starts a process, a new ArtiProcess
\* wraps it and is stored; the ArtiProcess stored before, if any, is dropped
\* and its __del__ runs close(False); then _wait_for_rpc() is called.
launch_arti ==
  /\ pc = "idle"
  /\ \E n \in Procs, onInt \in Reactions, onTerm \in Reactions,
        selfExit \in BOOLEAN :
       /\ process[n] = "absent"
       /\ \A m \in Procs : m < n => process[m] # "absent"
       /\ process' = [process EXCEPT ![n] = "Popen"]
       /\ arti_process' = n
       /\ LET ch == [child EXCEPT ![n] = Running(onInt, onTerm, selfExit)]
          IN  IF arti_process # None
                THEN CloseBody(ch, arti_process, FALSE, "del_launch")
                ELSE /\ child' = ch
                     /\ WaitBegin(DefaultTimeout)
                     /\ cl' = NoCall
                     /\ closed' = "never"
  /\ ret' = "none"
  /\ platform' = platform

\* The test calls arti_process_is_running().
call_arti_process_is_running ==
  /\ pc = "idle"
  /\ ret' = IF arti_process_is_running THEN "True" ELSE "False"
  /\ cl' = NoCall
  /\ NoRpc
  /\ UNCHANGED <<platform, arti_process, process, child, pc,
                 closed>>

\* The TestContext is destroyed, and with it the ArtiProcess it holds:
\* ArtiProcess.__del__, lines 202-203.
destroy ==
  /\ pc = "idle"
  /\ IF arti_process # None
       THEN CloseBody(child, arti_process, FALSE, "del_exit")
       ELSE /\ pc' = "gone"
            /\ cl' = NoCall
            /\ NoRpc
            /\ UNCHANGED <<child, closed>>
  /\ ret' = "none"
  /\ UNCHANGED <<platform, arti_process, process>>

\* ---------------------------------------------------- the child processes

\* A process that a signal told to exit exits.
child_exit ==
  \E i \in Procs :
    /\ child[i].state = "exiting"
    /\ child' = [child EXCEPT ![i] = Exited]
    /\ UNCHANGED <<platform, arti_process, process, pc, cl, closed,
                   ret, rpcvars>>

\* A process exits by itself.
child_self_exit ==
  \E i \in Procs :
    /\ child[i].state = "running"
    /\ child[i].selfExit
    /\ child' = [child EXCEPT ![i] = Exited]
    /\ UNCHANGED <<platform, arti_process, process, pc, cl, closed,
                   ret, rpcvars>>

\* ------------------------------------------------------- specifications
Next ==
  \/ launch_arti
  \/ wait_for_rpc
  \/ wait_for_rpc_attempt
  \/ wait_for_rpc_sleep
  \/ call_arti_process_is_running
  \/ close
  \/ close_grace_exit
  \/ close_grace_timeout
  \/ close_final_exit
  \/ close_final_timeout
  \/ destroy
  \/ child_exit
  \/ child_self_exit

Spec == Init /\ [][Next]_vars

\* A method that has been called runs on: each step of the thread that is
\* not a call made by the test is taken when it stays possible, and so is
\* the exit of a process that a signal told to exit.
ThreadStep ==
  \/ wait_for_rpc_attempt
  \/ wait_for_rpc_sleep
  \/ close_grace_exit
  \/ close_grace_timeout
  \/ close_final_exit
  \/ close_final_timeout

FairSpec == Spec /\ WF_vars(ThreadStep) /\ WF_vars(child_exit)

TypeOK ==
  /\ platform \in Platforms
  /\ arti_process \in {None} \cup Procs
  /\ process \in [Procs -> {"absent", "Popen", "None"}]
  /\ \A i \in Procs :
       /\ child[i].state \in {"unborn", "running", "exiting", "exited"}
       /\ child[i].onInt \in Reactions
       /\ child[i].onTerm \in Reactions
       /\ child[i].selfExit \in BOOLEAN
  /\ closed \in {"never", "returned", "raised"}
  /\ pc \in {"idle", "poll", "sleep", "grace", "final", "gone"}
  /\ cl.status \in {"none", "active", "returned", "raised"}
  /\ cl.target \in {None} \cup Procs
  /\ cl.gently \in BOOLEAN
  /\ cl.caller \in {"user", "del_launch", "del_exit"}
  /\ cl.grace \in {"none", "waiting", "exited", "timeout"}
  /\ cl.final \in {"none", "waiting", "exited", "timeout"}
  /\ cl.prev \in {"never", "returned", "raised"}
  /\ ret \in {"none", "True", "False"}
  /\ timeout \in 0..DefaultTimeout
  /\ rpc_status \in {"none", "running", "returned", "FatalException",
                     "OtherException"}

\* ================================================================ claims

\* The least n with n * i >= t: the ceiling of t / i, by its definition.
Ceiling(t, i) ==
  CHOOSE n \in 0..t : n * i >= t /\ \A m \in 0..(n - 1) : m * i < t

AllFailed == \A k \in DOMAIN results : results[k] = "ArtiRpcError"
NoneSucceeded == \A k \in DOMAIN results : results[k] # "ok"
RpcDone == rpc_status \in {"returned", "FatalException", "OtherException"}

\* C1: for every timeout > 0 (and the poll interval of the code),
\* _wait_for_rpc calls open_rpc_connection at most ceil(timeout / interval)
\* times, and when every attempt has failed it does not return normally: it
\* goes on polling until it raises the not-reachable FatalException.
C1_AttemptsBounded ==
  /\ attempts <= Ceiling(timeout, interval)
  /\ NoneSucceeded => rpc_status # "returned"
  /\ (RpcDone /\ AllFailed) =>
       (rpc_status = "FatalException" /\ pc = "idle" /\ rpc_error # <<>>)

\* C1 witness: a call with a timeout that is no multiple of the interval has
\* used its whole budget of attempts, all failed, and has raised.
C1_Witness ==
  /\ rpc_status = "FatalException"
  /\ timeout % interval # 0
  /\ attempts = Ceiling(timeout, interval)
  /\ attempts >= 2
  /\ AllFailed

\* C2: if the k-th attempt is the first to succeed, _wait_for_rpc returns
\* having made exactly k attempts: the successful attempt is the last one,
\* it is within the budget, every failed attempt before it was followed by
\* one sleep and no sleep follows it.
C2_ReturnsAtFirstSuccess ==
  \A k \in DOMAIN results :
    results[k] = "ok" =>
      /\ attempts = k
      /\ k <= Ceiling(timeout, interval)
      /\ rpc_status = "returned"
      /\ pc \notin {"poll", "sleep"}
      /\ waited = (k - 1) * interval

\* C2 witness: launch_arti's wait returned at its third attempt, of thirty.
C2_Witness ==
  /\ rpc_status = "returned"
  /\ timeout = DefaultTimeout
  /\ results = <<"ArtiRpcError", "ArtiRpcError", "ok">>

\* C3: close(True) on a running process that exits within the grace period
\* after the SIGINT never asks for terminate(): the only signal of the call
\* is the SIGINT, and the call returns with the handle cleared.
C3_NoTerminateAfterGentleExit ==
  /\ cl.grace \in {"waiting", "exited"} => cl.sent = <<"SIGINT">>
  /\ cl.grace = "exited" =>
       (cl.gently /\ cl.status = "returned" /\ process[cl.target] = "None")

\* C3 witness: the SIGINT reached a live process, which then exited before
\* the wait of line 192 timed out.
C3_Witness ==
  /\ cl.grace = "exited"
  /\ cl.delivered = <<"SIGINT">>
  /\ cl.status = "returned"

\* The thread is in the grace-period wait of a process that is running,
\* ignores SIGINT and does not exit by itself.
IgnoresInterrupt ==
  /\ pc = "grace"
  /\ child[cl.target].state = "running"
  /\ child[cl.target].onInt = "ignore"
  /\ ~child[cl.target].selfExit

\* The grace-period wait timed out and terminate() was sent, after the SIGINT.
Escalated ==
  /\ cl.grace = "timeout"
  /\ cl.sent = <<"SIGINT", "SIGTERM">>
  /\ cl.delivered = <<"SIGINT", "SIGTERM">>

\* C4: close(True) on a process that ignores SIGINT always eventually sends
\* terminate(), after the SIGINT and once the grace-period wait has timed
\* out; and such a call returns only once the process has exited.
C4_EscalatesToTerminate ==
  /\ IgnoresInterrupt ~> Escalated
  /\ [](cl.grace = "timeout" => cl.sent = <<"SIGINT", "SIGTERM">>)
  /\ []((cl.grace = "timeout" /\ cl.status = "returned") =>
          child[cl.target].state = "exited")

\* C4 witness: a call that escalated to terminate() has returned.
C4_Witness ==
  /\ cl.grace = "timeout"
  /\ cl.status = "returned"
  /\ cl.delivered = <<"SIGINT", "SIGTERM">>

\* C5, as claimed: a call of close by the test that follows another call of
\* close on the same ArtiProcess raises nothing and delivers no signal.
C5_SecondCloseIsNoOp ==
  (cl.status # "none" /\ cl.caller = "user" /\ cl.prev # "never") =>
    (cl.status = "returned" /\ cl.delivered = <<>>)

\* C5, amended: a call of close that follows a call of close that returned
\* normally, on the same ArtiProcess, returns at once: it raises nothing,
\* asks for no signal and waits for nothing.
C5_CloseAfterReturnIsNoOp ==
  (cl.status # "none" /\ cl.prev = "returned") =>
    /\ cl.status = "returned"
    /\ cl.sent = <<>>
    /\ cl.delivered = <<>>
    /\ cl.grace = "none"
    /\ cl.final = "none"

\* C5 witness: the test has called close a second time, after a close that
\* returned.
C5_Witness ==
  /\ cl.status = "returned"
  /\ cl.prev = "returned"
  /\ cl.caller = "user"
  /\ pc = "idle"

\* C6: arti_process_is_running is false while no process has been launched,
\* and is_running is false for an ArtiProcess whose close has returned,
\* whatever gently was and however the process came to exit; so a call that
\* returned True was made on a launched ArtiProcess that no close had
\* returned from.
C6_NotRunningBeforeStartAndAfterClose ==
  /\ arti_process = None => ~arti_process_is_running
  /\ closed = "returned" => ~arti_process_is_running
  /\ cl.status = "returned" => ~is_running(cl.target)
  /\ ret = "True" => (arti_process # None /\ closed # "returned")

\* C6 witness: arti_process_is_running was called after close had returned,
\* and returned False.
C6_Witness ==
  /\ ret = "False"
  /\ arti_process # None
  /\ closed = "returned"

\* C7: a handle is cleared only once its process has exited, and whenever
\* close has returned the process has exited and the handle is cleared.
C7_ClearedOnlyAfterExit ==
  /\ \A i \in Procs : process[i] = "None" => child[i].state = "exited"
  /\ cl.status = "returned" =>
       (process[cl.target] = "None" /\ child[cl.target].state = "exited")

\* C7 witness: close(False) terminated a live process and has returned.
C7_Witness ==
  /\ cl.status = "returned"
  /\ ~cl.gently
  /\ cl.delivered = <<"SIGTERM">>
  /\ cl.caller = "user"

\* C8: when gently is false or the platform is win32, close sends no SIGINT
\* and makes no grace-period wait: terminate() is the one signal it asks
\* for, and it asks for none only when the handle was already cleared.
C8_DirectTerminate ==
  (cl.status # "none" /\ (~cl.gently \/ platform = "win32")) =>
    /\ cl.grace = "none"
    /\ pc # "grace"
    /\ \/ cl.sent = <<"SIGTERM">>
       \/ cl.sent = <<>> /\ cl.status = "returned" /\ cl.final = "none"

\* C8 witness: close(True) on win32 terminated a live process.
C8_Witness ==
  /\ cl.gently
  /\ platform = "win32"
  /\ cl.delivered = <<"SIGTERM">>

\* C9: when the final wait of close times out, close raises: it does not
\* return normally.
C9_FinalTimeoutRaises ==
  cl.final = "timeout" =>
    /\ cl.status = "raised"
    /\ cl.caller = "user" => pc = "idle"

\* C9 witness: the process ignored the SIGINT and the terminate() of a
\* close(True) called by the test, which raised.
C9_Witness ==
  /\ cl.status = "raised"
  /\ cl.caller = "user"
  /\ cl.delivered = <<"SIGINT", "SIGTERM">>

\* C10: the FatalException that _wait_for_rpc raises when its attempts are
\* exhausted carries the value of timeout in its message.
C10_ErrorReportsTimeout ==
  rpc_status = "FatalException" =>
    \E k \in DOMAIN rpc_error : rpc_error[k] = Value(timeout)

\* An exception has left _wait_for_rpc.
RpcRaised == rpc_status \in {"FatalException", "OtherException"}

\* C11, as claimed: every failure of an attempt, whatever its type, is
\* retried: after a failed attempt that is not the last of the budget the
\* call is sleeping or polling on, or has made a further attempt, and no
\* exception leaves _wait_for_rpc before the budget is used up.
C11_EveryFailureRetried ==
  /\ \A k \in DOMAIN results :
       (results[k] # "ok" /\ k < Ceiling(timeout, interval)) =>
         \/ attempts > k
         \/ rpc_status = "running" /\ pc \in {"sleep", "poll"}
  /\ RpcRaised => attempts = Ceiling(timeout, interval)

\* C11, amended: every ArtiRpcError of an attempt is retried: after such an
\* attempt that is not the last of the budget the call is sleeping or
\* polling on, or has made a further attempt; the FatalException is raised
\* only when the whole budget failed so, each failure followed by one sleep;
\* and an exception of another class leaves _wait_for_rpc at once.
C11_EveryRpcErrorRetried ==
  /\ \A k \in DOMAIN results :
       (results[k] = "ArtiRpcError" /\ k < Ceiling(timeout, interval)) =>
         \/ attempts > k
         \/ rpc_status = "running" /\ pc \in {"sleep", "poll"}
  /\ rpc_status = "FatalException" =>
       /\ attempts = Ceiling(timeout, interval)
       /\ AllFailed
       /\ waited = attempts * interval
  /\ \A k \in DOMAIN results :
       results[k] = "OtherException" =>
         (attempts = k /\ rpc_status = "OtherException" /\ pc = "idle")

\* C11 witness: the first attempt raised ArtiRpcError with budget left, the
\* call slept and made a second attempt.
C11_Witness ==
  /\ attempts = 2
  /\ results[1] = "ArtiRpcError"
  /\ waited = interval
  /\ Ceiling(timeout, interval) > 2

\* ArtiProcess i has been destroyed and its __del__ has run to its end: a
\* later launch_arti replaced it in arti_process, or the TestContext is gone.
Destroyed(i) ==
  /\ process[i] # "absent"
  /\ i # arti_process \/ pc = "gone"
  /\ ~(cl.status = "active" /\ cl.target = i)

Alive(i) == child[i].state \in {"running", "exiting"}

\* The calls of close made by __del__ are close(False): they never send
\* SIGINT, and send terminate() unless the handle was already cleared.
DelClosesForcefully ==
  (cl.status # "none" /\ cl.caller \in {"del_launch", "del_exit"}) =>
    /\ ~cl.gently
    /\ cl.grace = "none"
    /\ \/ cl.sent = <<"SIGTERM">>
       \/ cl.sent = <<>> /\ process[cl.target] = "None"

\* C12, as claimed: the destruction of an ArtiProcess runs close(False),
\* which sends terminate() and never SIGINT, and a destroyed ArtiProcess
\* never leaves its process running.
C12_DestroyedNeverLeaks ==
  /\ DelClosesForcefully
  /\ \A i \in Procs : Destroyed(i) => ~Alive(i)

\* C13: a cleared handle stays cleared, and from then on nothing is sent or
\* waited for through its ArtiProcess: a call of close on it returns at
\* once, and the process it held, which has exited, is not touched.
C13_StoppedIsTerminal ==
  [][\A i \in Procs :
       process[i] = "None" =>
         /\ process'[i] = "None"
         /\ child'[i] = child[i]
         /\ (cl' # cl /\ cl'.target = i) =>
              /\ cl'.status = "returned"
              /\ cl'.sent = <<>>
              /\ cl'.grace = "none"
              /\ cl'.final = "none"
              /\ pc' \notin {"grace", "final"}]_vars

\* C13 witness: after a close that returned, the TestContext was destroyed
\* and the close(False) of __del__ found the handle cleared.
C13_Witness ==
  /\ pc = "gone"
  /\ cl.caller = "del_exit"
  /\ cl.prev = "returned"
  /\ cl.status = "returned"
  /\ cl.sent = <<>>

\* The time the call of _wait_for_rpc has spent in time.sleep, the sleep it
\* is in included.
Slept == waited + (IF pc = "sleep" THEN interval ELSE 0)

\* C14: with attempts that take no time, a call of _wait_for_rpc sleeps for
\* at most timeout + interval in all, whether it returns or each of its
\* attempts fails and is followed by a sleep.
C14_SleepWithinTimeoutPlusInterval ==
  /\ Slept <= timeout + interval
  /\ Slept = interval * Cardinality({k \in DOMAIN results : results[k] = "ArtiRpcError"})

\* C14 witness: every attempt failed, the last one too was followed by a
\* sleep, and the call slept for longer than its timeout.
C14_Witness ==
  /\ rpc_status = "FatalException"
  /\ AllFailed
  /\ waited = attempts * interval
  /\ waited > timeout

\* C15: arti_process_is_running() answers True exactly when an ArtiProcess
\* is held, its handle is set and its process has not exited; the call
\* sends nothing and changes neither the handle nor the process.
C15_IsRunningIsPureQuery ==
  [][(ret' # ret /\ ret' # "none") =>
       /\ ret' = "True" <=>
            /\ arti_process # None
            /\ process[arti_process] = "Popen"
            /\ child[arti_process].state \in {"running", "exiting"}
       /\ process' = process
       /\ child' = child
       /\ arti_process' = arti_process
       /\ cl' = NoCall
       /\ pc' = pc]_vars

\* C15 witness: the process exited by itself; no close was ever called, the
\* handle is still set, and the answer is False.
C15_Witness ==
  /\ ret = "False"
  /\ arti_process # None
  /\ process[arti_process] = "Popen"
  /\ child[arti_process].state = "exited"
  /\ closed = "never"

\* C16: when the wait of line 199 times out, close raises with the handle
\* still set, so is_running() is still True; a later call of close on that
\* ArtiProcess, by the test or by __del__, sends a signal again, which
\* reaches the process unless it has exited by itself since.
C16_FailedCloseKeepsHandle ==
  /\ [](cl.final = "timeout" =>
         /\ cl.status = "raised"
         /\ process[cl.target] = "Popen"
         /\ is_running(cl.target) \/ child[cl.target] = Exited)
  /\ [][(cl.final # "timeout" /\ cl'.final = "timeout") =>
         /\ process'[cl'.target] = "Popen"
         /\ child'[cl'.target].state = "running"
         /\ child' = child]_vars
  /\ []((cl.status # "none" /\ cl.prev = "raised") =>
         /\ cl.sent # <<>>
         /\ cl.delivered # <<>> \/ child[cl.target] = Exited)

\* C16 witness: a close by the test raised; the TestContext was then
\* destroyed and the close(False) of __del__ sent terminate() to the
\* process, which was still there to receive it.
C16_Witness ==
  /\ cl.caller = "del_exit"
  /\ cl.prev = "raised"
  /\ cl.sent = <<"SIGTERM">>
  /\ cl.delivered = <<"SIGTERM">>

\* C17: _wait_for_rpc does not look at the process: with the process that
\* arti_process holds exited and every attempt failed with ArtiRpcError,
\* the call is still in its loop, or it raised after the full
\* ceil(timeout / interval) attempts, each followed by a sleep.
C17_PollIgnoresLiveness ==
  (/\ rpc_status \in {"running", "FatalException"}
   /\ arti_process # None
   /\ ~is_running(arti_process)) =>
     \/ /\ rpc_status = "running"
        /\ pc \in {"poll", "sleep"}
        /\ AllFailed
        /\ attempts <= Ceiling(timeout, interval)
        /\ pc = "poll" => attempts < Ceiling(timeout, interval)
     \/ /\ rpc_status = "FatalException"
        /\ AllFailed
        /\ attempts = Ceiling(timeout, interval)
        /\ waited = attempts * interval

\* C17 witness: the wait made by launch_arti is in the sleep that follows
\* its last attempt, every attempt failed, and the process launched has
\* exited by itself with its handle still set.
C17_Witness ==
  /\ pc = "sleep"
  /\ timeout = DefaultTimeout
  /\ attempts = Ceiling(DefaultTimeout, interval)
  /\ arti_process # None
  /\ process[arti_process] = "Popen"
  /\ child[arti_process].state = "exited"

\* The call of _wait_for_rpc under way or just ended is the one made by
\* launch_arti (line 122): the test's own calls use timeouts up to
\* MaxTimeout, which is below DefaultTimeout.
LaunchWait == timeout = DefaultTimeout

\* C18: when the _wait_for_rpc of launch_arti raises, launch_arti has
\* closed nothing: arti_process holds the new ArtiProcess with its handle
\* set, no close has been called on it and no signal sent to its process,
\* which runs on unless it exits by itself.
C18_FailedLaunchKeepsChild ==
  (LaunchWait /\ RpcRaised) =>
    /\ pc = "idle"
    /\ arti_process # None
    /\ process[arti_process] = "Popen"
    /\ closed = "never"
    /\ cl.status # "none" => (cl.caller = "del_launch" /\ cl.target # arti_process)
    /\ child[arti_process].state \in {"running", "exited"}
    /\ child[arti_process].state = "running" => arti_process_is_running

\* C18 witness: launch_arti failed with the not-reachable FatalException
\* and the process it started is running.
C18_Witness ==
  /\ LaunchWait
  /\ rpc_status = "FatalException"
  /\ arti_process # None
  /\ child[arti_process].state = "running"
  /\ arti_process_is_running

AliveChildren == {i \in Procs : Alive(i)}

\* C19, as claimed: at most one process started by the TestContext is alive
\* in every reachable state, a second launch_arti included.
C19_AtMostOneAlive == Cardinality(AliveChildren) <= 1

\* C19, amended: a process alive other than the one arti_process holds is
\* one whose ArtiProcess a later launch_arti replaced: either the
\* close(False) of its __del__ is under way, or that close raised because
\* the process ignores terminate() and the process was left running.
C19_OthersAliveOnlyWhileReplaced ==
  \A i \in Procs :
    (Alive(i) /\ i # arti_process) =>
      /\ arti_process # None
      /\ i < arti_process
      /\ process[i] = "Popen"
      /\ \/ cl.status = "active" /\ cl.target = i /\ cl.caller = "del_launch"
         \/ child[i].state = "running" /\ child[i].onTerm = "ignore"

\* C19 witness: a second launch_arti has started and stored its process
\* while the close of the first one, still alive, is under way.
C19_Witness ==
  /\ cl.status = "active"
  /\ cl.caller = "del_launch"
  /\ Alive(cl.target)
  /\ arti_process # None
  /\ arti_process # cl.target
  /\ Alive(arti_process)

====
